---- MODULE Spec2Model ----
(***************************************************************************)
(* BSBLan: asynchronous client for a BSB-Lan heating controller            *)
(* (src/bsblan/bsblan.py).  One client object, used by one caller.  Every  *)
(* public coroutine is split at its awaits of _request: a Call* action     *)
(* runs the coroutine up to the point where the request has been handed    *)
(* to the session, a *Done action delivers the device's answer and runs    *)
(* the coroutine to its next await or to its end.  While a call is in      *)
(* flight (pc # "idle") no other call starts.                              *)
(***************************************************************************)
EXTENDS Naturals, Sequences, FiniteSets, TLC

\* ------------------------------------------------------------------ bounds

\* Largest number of entries in a device response map.
MaxEntries == 2
\* Largest number of session.close() invocations that are followed.
MaxSessionCloses == 2
\* Number of tasks that call the client concurrently.
NumTasks == 2

\* ------------------------------------------------------- python primitives

\* Python's None, for the optional strings (passkey, username, password,
\* _parameters, a reading's value, the thermostat arguments, the session).
None == "None"

\* Optional non-string values (dicts, auth pairs): Nothing is None.
Nothing == [none |-> TRUE]
Some(x) == [some |-> x]

\* dict: a function from keys to values; {} is the empty function.
EmptyDict == [x \in {} |-> ""]
DictSet(d, k, v) == [x \in (DOMAIN d) \cup {k} |-> IF x = k THEN v ELSE d[x]]
DictGet(d, k, default) == IF k \in DOMAIN d THEN d[k] ELSE default

\* Truth value of an optional string: None and "" are falsy.
Truthy(x) == x # None /\ x # ""

\* ------------------------------------------------------------ the device

\* The bootstrap parameter IDs scan() asks for.
Ids == {"8740", "710", "700"}

\* A reading: the object the device returns for one ID.
Readings == { EmptyDict, [value |-> ""], [value |-> "20.5"] }

\* Response maps: ordered (insertion order of the decoded dict), distinct keys.
Maps ==
    { m \in UNION { [1..n -> Ids \X Readings] : n \in 0..MaxEntries } :
        \A i, j \in 1..Len(m) : i # j => m[i][1] # m[j][1] }

Keys(m) == [i \in 1..Len(m) |-> m[i][1]]

SampleMap == << <<"8740", [value |-> "20.5"]>> >>

\* Raw body texts that are not JSON, and the text of a JSON document.
HtmlText == "<html>401</html>"
JsonText == "{...}"

\* A body: its raw text and, when the text is a JSON document, the decoded map.
Body(text, json) == [text |-> text, json |-> json]

ContentTypes ==
    { "application/json", "application/json; charset=utf-8", "text/html" }

\* Response headers: with or without a Content-Type entry.
HeaderSets == { EmptyDict } \cup { [x \in {"Content-Type"} |-> c] : c \in ContentTypes }

\* An answer whose status line and headers arrive before request_timeout
\* expires; body_late: its body arrives only after that time; body_error:
\* what the read of the body raises when the connection fails under it.
Http(status, headers, body) ==
    [kind |-> "http", status |-> status, headers |-> headers, body |-> body,
     body_late |-> FALSE, body_error |-> None]

LateBody(r) == [r EXCEPT !.body_late = TRUE]

\* The connection breaks while response.text() or response.json() reads.
BrokenBody(r) == [r EXCEPT !.body_error = "aiohttp.ClientPayloadError"]

JsonHeaders == [x \in {"Content-Type"} |-> "application/json"]
HtmlHeaders == [x \in {"Content-Type"} |-> "text/html"]

\* What can come back for any request: no status line and headers before
\* request_timeout expires ("timeout"), no connection, no address, an error
\* status, a 200 with any headers and a body that is or is not a JSON
\* document, a 300 that is not a redirect to follow, a 200 whose body is
\* late, or a 200 whose body cannot be read to its end.
Answers ==
    { [kind |-> k] : k \in {"timeout", "clienterror", "gaierror"} }
    \cup { Http(200, h, b) : h \in HeaderSets,
              b \in { Body(HtmlText, Nothing), Body(JsonText, Some(SampleMap)) } }
    \cup { Http(404, h, Body(HtmlText, Nothing)) : h \in { EmptyDict, JsonHeaders } }
    \cup { Http(300, HtmlHeaders, Body(HtmlText, Nothing)) }
    \cup { LateBody(Http(200, JsonHeaders, Body(JsonText, Some(SampleMap)))),
           LateBody(Http(200, HtmlHeaders, Body(HtmlText, Nothing))) }
    \cup { BrokenBody(Http(200, JsonHeaders, Body(JsonText, Some(SampleMap)))),
           BrokenBody(Http(200, HtmlHeaders, Body(HtmlText, Nothing))) }

\* What can come back for the bootstrap query of scan(): the same, and a 200
\* with any response map over the IDs asked for.
ScanAnswers ==
    Answers \cup { Http(200, JsonHeaders, Body(JsonText, Some(m))) : m \in Maps }

NoResponse == [kind |-> "none"]

\* ------------------------------------------------------------ the client

\* Constructor arguments (host, port and request_timeout are fixed).
Passkeys == { None, "1234" }
Credentials ==
    { <<None, None>>, <<"admin", "secret">>, <<"admin", None>>, <<"", "secret">> }
Sessions == { None, "supplied" }

\* thermostat() arguments.
Temperatures == { None, "19.0", "21.5" }
HvacModes == { None, "3" }

VARIABLES
    _session,        \* None, "supplied" (the caller's) or "created" (the client's)
    _close_session,  \* the client created the session itself
    _parameters,     \* None or the cached comma-joined parameter IDs
    passkey, username, password,
    pc,              \* "idle", or the await the running call is suspended at
    op,              \* the public operation called last
    args,            \* its arguments
    before,          \* _parameters when that call started
    sent,            \* the requests that call has handed to the session
    resp,            \* the answer to the latest of them
    decoded,         \* response.json() was called on that answer
    decodings,       \* response.json() calls of that call so far
    nscan,           \* scan() invocations of that call
    result,          \* pending, the returned value, or the exception raised
    sessionCloses,   \* session.close() invocations so far
    created,         \* ClientSession() constructions so far
    scanned,         \* what the latest scan() that succeeded returned
    run              \* the calls so far: "fresh", "first", "later", "mixed"

config == << passkey, username, password >>
client == << _session, _close_session, _parameters >>
call == << pc, op, args, before, sent, resp, decoded, decodings, nscan, result >>
ghost == << sessionCloses, created, scanned, run >>
vars == << config, client, call, ghost >>

\* ------------------------------------------------------------- _request

\* Variant: "if not data", which takes an empty dict for no body.
BasePath_EmptyIsQuery(data) ==
    IF data = Nothing \/ data = Some(EmptyDict) THEN "/JQ" ELSE "/JS"

\* base_path = "/JQ" if data is None else "/JS"
BasePath(data) == IF data = Nothing THEN "/JQ" ELSE "/JS"

\* Variant: the passkey is left out of the path.
RequestPath_NoPasskey(key, data) == BasePath(data)

\* the passkey, when there is one, goes in front; uri is "" in every call,
\* and joining "" onto the URL leaves its path as it is
RequestPath(key, data) ==
    IF key # None THEN "/" \o key \o BasePath(data) ELSE BasePath(data)

\* Variant: a username alone is enough for credentials to be attached.
RequestAuth_UsernameOnly(user, pass) ==
    IF Truthy(user)
    THEN Some([login |-> user, password |-> pass])
    ELSE Nothing

\* auth = BasicAuth(username, password) if self.username and self.password
RequestAuth(user, pass) ==
    IF Truthy(user) /\ Truthy(pass)
    THEN Some([login |-> user, password |-> pass])
    ELSE Nothing

RequestHeaders ==
    [x \in {"User-Agent", "Accept"} |->
        IF x = "Accept" THEN "application/json" ELSE "PythonBSBLan/__version__"]

\* Variant: a new session is taken for every request.
AcquiredSession_Always(session) == "created"

\* if self._session is None: self._session = ClientSession()
AcquiredSession(session) == IF session = None THEN "created" ELSE session

\* the arguments of self._session.request(...)
BuildRequest(session, data, params) ==
    [ session |-> session,
      method  |-> "POST",
      path    |-> RequestPath(passkey, data),
      auth    |-> RequestAuth(username, password),
      json    |-> data,
      params  |-> params,
      headers |-> RequestHeaders ]

\* response.raise_for_status(): raises for a status of 400 or above
RaisesForStatus(status) == status >= 400

\* What the try block raises: the timeout, a client error, or nothing.
TransportError(r) ==
    IF r.kind = "timeout" THEN "asyncio.TimeoutError"
    ELSE IF r.kind = "gaierror" THEN "socket.gaierror"
    ELSE IF r.kind = "clienterror" THEN "aiohttp.ClientError"
    ELSE IF RaisesForStatus(r.status) THEN "aiohttp.ClientResponseError"
    ELSE None

TimeoutMessage == "Timeout occurred while connecting to BSBLan device."
CommunicationMessage == "Error occurred while communicating with BSBLan device."
UnexpectedMessage == "Unexpected response from the BSBLan device"

Return(v) == [kind |-> "return", value |-> v]
Raise(exc, msg, info, cause) ==
    [kind |-> "raise", exc |-> exc, msg |-> msg, info |-> info, cause |-> cause]
Pending == [kind |-> "pending"]

\* Variant: any Content-Type header at all is taken for JSON.
ContentTypeOk_AnyHeader(content_type) == content_type # ""

\* "application/json" in content_type, for the content types of the model
Affixes == { "", "; charset=utf-8" }
ContentTypeOk(content_type) ==
    \E pre, post \in Affixes : content_type = pre \o "application/json" \o post

\* Variant: no except clause for the timeout, which then propagates as it is.
HandleTransportError_TimeoutUncaught(error) ==
    IF error = "asyncio.TimeoutError"
    THEN Raise("asyncio.TimeoutError", "", Nothing, None)
    ELSE Raise("BSBLanConnectionError", CommunicationMessage, Nothing, error)

\* the except clauses
HandleTransportError(error) ==
    IF error = "asyncio.TimeoutError"
    THEN Raise("BSBLanConnectionError", TimeoutMessage, Nothing, error)
    ELSE Raise("BSBLanConnectionError", CommunicationMessage, Nothing, error)

\* the BSBLanError raised for a content type that is not JSON
UnexpectedResponse(content_type, text) ==
    Raise("BSBLanError", UnexpectedMessage,
          Some([x \in {"Content-Type", "response"} |->
                  IF x = "response" THEN text ELSE content_type]),
          None)

\* response.json(): the decoded document, or the decoder's own exception
DecodeJson(body) ==
    IF body.json = Nothing
    THEN Raise("JSONDecodeError", "", Nothing, None)
    ELSE Return(body.json.some)

\* an exception of response.text() or response.json(): outside the try
\* block, so it leaves _request as it is
ReadError(error) == Raise(error, "", Nothing, None)

\* _request from the answer on: what the coroutine returns or raises
RequestResult(r) ==
    IF TransportError(r) # None THEN HandleTransportError(TransportError(r))
    ELSE IF r.body_error # None THEN ReadError(r.body_error)
    ELSE LET content_type == DictGet(r.headers, "Content-Type", "")
         IN  IF ~ContentTypeOk(content_type)
             THEN UnexpectedResponse(content_type, r.body.text)
             ELSE DecodeJson(r.body)

\* response.json() is reached
Decodes(r) ==
    /\ TransportError(r) = None
    /\ ContentTypeOk(DictGet(r.headers, "Content-Type", ""))

\* ----------------------------------------------------------------- scan

RECURSIVE Join(_, _)
\* sep.join(items)
Join(sep, items) ==
    IF items = << >> THEN ""
    ELSE IF Len(items) = 1 THEN items[1]
    ELSE items[1] \o sep \o Join(sep, Tail(items))

\* Variant: only a missing key counts, an empty value is kept.
HasNoValue_MissingKeyOnly(v) == "value" \notin DOMAIN v

\* not v.get("value")
HasNoValue(v) == ~Truthy(DictGet(v, "value", None))

\* the keys collected by the first loop, in the map's order
NotValidData(data) ==
    Keys(SelectSeq(data, LAMBDA e : HasNoValue(e[2])))

\* data.pop(i)
Pop(data, i) == SelectSeq(data, LAMBDA e : e[1] # i)

RECURSIVE PopAll(_, _)
\* for i in notValidData: data.pop(i)
PopAll(data, notValidData) ==
    IF notValidData = << >> THEN data
    ELSE PopAll(Pop(data, Head(notValidData)), Tail(notValidData))

\* the string scan() stores and returns for the decoded map
ScanParameters(data) ==
    Join(",", Keys(PopAll(data, NotValidData(data))))

ScanQuery == [x \in {"Parameter"} |-> "8740,710,700"]

\* ---------------------------------------------------------------- state

\* Variant: "if not self._parameters", which takes "" for no cache.
NeedsScan_Falsy(parameters) == ~Truthy(parameters)

\* Variant: state() scans on every call.
NeedsScan_Always(parameters) == TRUE

\* if self._parameters is None
NeedsScan(parameters) == parameters = None

\* Variant: an empty set falls back to the bootstrap IDs.
FormatParameters_EmptyFallsBack(parameters) ==
    IF parameters = "" THEN "8740,710,700" ELSE parameters

\* f"{parameters}": a str formats as itself
FormatParameters(parameters) == parameters

\* Variant: state() asks for the bootstrap IDs whatever is cached.
StateQuery_Bootstrap(parameters) == [x \in {"Parameter"} |-> "8740,710,700"]

StateQuery(parameters) ==
    [x \in {"Parameter"} |-> FormatParameters(parameters)]

\* State.from_dict(data), Info.from_dict(data): the decoder's objects
StateFromDict(data) == [cls |-> "State", data |-> data]
InfoFromDict(data) == [cls |-> "Info", data |-> data]

\* ----------------------------------------------------------------- info

\* Variant: info() asks for the cached set, as state() does.
InfoQuery_Cached == [x \in {"Parameter"} |-> _parameters]

InfoQuery == [x \in {"Parameter"} |-> "6224,6225,6226"]

\* ----------------------------------------------------------- thermostat

\* Variant: the two parameter IDs are swapped.
ThermostatPayload_SwappedIds(target_temperature, hvac_mode) ==
    LET s0 == EmptyDict
        s1 == IF target_temperature # None
              THEN DictSet(DictSet(DictSet(s0, "Parameter", "700"),
                                   "Value", target_temperature), "Type", "1")
              ELSE s0
        s2 == IF hvac_mode # None
              THEN DictSet(DictSet(DictSet(s1, "Parameter", "710"),
                                   "EnumValue", hvac_mode), "Type", "1")
              ELSE s1
    IN  s2

\* Variant: the mode entry starts from a fresh dict.
ThermostatPayload_ModeReplaces(target_temperature, hvac_mode) ==
    LET s0 == EmptyDict
        s1 == IF target_temperature # None
              THEN DictSet(DictSet(DictSet(s0, "Parameter", "710"),
                                   "Value", target_temperature), "Type", "1")
              ELSE s0
        s2 == IF hvac_mode # None
              THEN DictSet(DictSet(DictSet(s0, "Parameter", "700"),
                                   "EnumValue", hvac_mode), "Type", "1")
              ELSE s1
    IN  s2

\* the state dict thermostat() builds
ThermostatPayload(target_temperature, hvac_mode) ==
    LET s0 == EmptyDict
        s1 == IF target_temperature # None
              THEN DictSet(DictSet(DictSet(s0, "Parameter", "710"),
                                   "Value", target_temperature), "Type", "1")
              ELSE s0
        s2 == IF hvac_mode # None
              THEN DictSet(DictSet(DictSet(s1, "Parameter", "700"),
                                   "EnumValue", hvac_mode), "Type", "1")
              ELSE s1
    IN  s2

\* ---------------------------------------------------------------- close

\* Variant: the ownership flag is not consulted.
ClosesSession_AnySession(session, close_session) == session # None

\* if self._session and self._close_session
ClosesSession(session, close_session) == session # None /\ close_session

\* -------------------------------------------------------------- actions

Init ==
    /\ _session \in Sessions
    /\ _close_session = FALSE
    /\ _parameters = None
    /\ passkey \in Passkeys
    /\ \E c \in Credentials : username = c[1] /\ password = c[2]
    /\ pc = "idle"
    /\ op = "none"
    /\ args = << >>
    /\ before = None
    /\ sent = << >>
    /\ resp = NoResponse
    /\ decoded = FALSE
    /\ decodings = 0
    /\ nscan = 0
    /\ result = Pending
    /\ sessionCloses = 0
    /\ created = 0
    /\ scanned = None
    /\ run = "fresh"

\* A public coroutine is called: the record of the previous call is reset.
Begin(name, arguments) ==
    /\ pc = "idle"
    /\ op' = name
    /\ args' = arguments
    /\ before' = _parameters
    /\ resp' = NoResponse
    /\ decoded' = FALSE
    /\ decodings' = 0

\* _request up to its await: the session is acquired, the request handed over.
SendRequest(log, data, params) ==
    /\ _session' = AcquiredSession(_session)
    /\ _close_session' = IF _session = None THEN TRUE ELSE _close_session
    /\ created' = IF _session = None THEN created + 1 ELSE created
    /\ sent' = Append(log, BuildRequest(AcquiredSession(_session), data, params))

\* The awaits of session.request(), by the coroutine that is suspended there.
RequestAwaits == { "scan", "state_scan", "state", "info", "thermostat" }

\* The awaits of the body that follow: response.json() and response.text().
JsonAwait(at) == at \o "_json"
TextAwait(at) == at \o "_text"
BodyAwaits(at) == { JsonAwait(at), TextAwait(at) }

\* The status line and headers of answer r arrive, or the failure that
\* stands for them: the await of session.request() ends.
Receive(r) ==
    /\ resp' = r
    /\ decoded' = Decodes(r)
    /\ decodings' = IF Decodes(r) THEN decodings + 1 ELSE decodings

\* Variant: a request that timed out is sent once more instead of raising.
ResponseHead_RetriesOnTimeout ==
    /\ pc \in RequestAwaits
    /\ \E r \in IF pc \in {"scan", "state_scan"} THEN ScanAnswers ELSE Answers :
        /\ Receive(r)
        /\ IF r.kind = "timeout"
           THEN /\ sent' = Append(sent, sent[Len(sent)])
                /\ UNCHANGED << pc, result, run >>
           ELSE /\ sent' = sent
                /\ IF TransportError(r) # None
                   THEN /\ result' = HandleTransportError(TransportError(r))
                        /\ pc' = "idle"
                        /\ run' = IF pc \in {"state_scan", "state"} THEN "mixed" ELSE run
                   ELSE /\ pc' = IF Decodes(r) THEN JsonAwait(pc) ELSE TextAwait(pc)
                        /\ UNCHANGED << result, run >>
    /\ UNCHANGED << config, client, op, args, before, nscan, sessionCloses,
                    created, scanned >>

\* _request from the end of the await of session.request() to its raise in
\* an except clause, or to its await of the body.
ResponseHead ==
    /\ pc \in RequestAwaits
    /\ \E r \in IF pc \in {"scan", "state_scan"} THEN ScanAnswers ELSE Answers :
        /\ Receive(r)
        /\ IF TransportError(r) # None
           THEN /\ result' = HandleTransportError(TransportError(r))
                /\ pc' = "idle"
                /\ run' = IF pc \in {"state_scan", "state"} THEN "mixed" ELSE run
           ELSE /\ pc' = IF Decodes(r) THEN JsonAwait(pc) ELSE TextAwait(pc)
                /\ UNCHANGED << result, run >>
    /\ UNCHANGED << config, client, op, args, before, sent, nscan, sessionCloses,
                    created, scanned >>

\* scan()
CallScan ==
    /\ Begin("scan", << >>)
    /\ result' = Pending
    /\ nscan' = 1
    /\ SendRequest(<< >>, Nothing, Some(ScanQuery))
    /\ pc' = "scan"
    /\ run' = "mixed"
    /\ UNCHANGED << config, _parameters, sessionCloses, scanned >>

\* Variant: a scan that fails leaves the cache cleared.
ScanDone_ClearsOnFailure ==
    /\ pc \in BodyAwaits("scan")
    /\ IF RequestResult(resp).kind = "return"
       THEN /\ _parameters' = ScanParameters(RequestResult(resp).value)
            /\ result' = Return(_parameters')
            /\ scanned' = result'.value
       ELSE /\ _parameters' = None
            /\ result' = RequestResult(resp)
            /\ scanned' = scanned
    /\ pc' = "idle"
    /\ UNCHANGED << config, _session, _close_session, op, args, before, sent, resp,
                    decoded, decodings, nscan, sessionCloses, created, run >>

\* The body of the answer to scan() has arrived: _request and scan() run to
\* their end.
ScanDone ==
    /\ pc \in BodyAwaits("scan")
    /\ IF RequestResult(resp).kind = "return"
       THEN /\ _parameters' = ScanParameters(RequestResult(resp).value)
            /\ result' = Return(_parameters')
            /\ scanned' = result'.value
       ELSE /\ _parameters' = _parameters
            /\ result' = RequestResult(resp)
            /\ scanned' = scanned
    /\ pc' = "idle"
    /\ UNCHANGED << config, _session, _close_session, op, args, before, sent, resp,
                    decoded, decodings, nscan, sessionCloses, created, run >>

\* state()
CallState ==
    /\ Begin("state", << >>)
    /\ result' = Pending
    /\ IF NeedsScan(_parameters)
       THEN /\ nscan' = 1
            /\ SendRequest(<< >>, Nothing, Some(ScanQuery))
            /\ pc' = "state_scan"
       ELSE /\ nscan' = 0
            /\ SendRequest(<< >>, Nothing, Some(StateQuery(_parameters)))
            /\ pc' = "state"
    /\ UNCHANGED << config, _parameters, sessionCloses, scanned, run >>

\* The body of the answer to the scan() awaited by state() has arrived:
\* scan() ends, and on success state() runs to the await of its own query.
StateScanDone ==
    /\ pc \in BodyAwaits("state_scan")
    /\ IF RequestResult(resp).kind = "return"
       THEN /\ _parameters' = ScanParameters(RequestResult(resp).value)
            /\ scanned' = ScanParameters(RequestResult(resp).value)
            /\ SendRequest(sent, Nothing, Some(StateQuery(_parameters')))
            /\ result' = Pending
            /\ pc' = "state"
            /\ run' = run
       ELSE /\ _parameters' = _parameters
            /\ result' = RequestResult(resp)
            /\ pc' = "idle"
            /\ run' = "mixed"
            /\ UNCHANGED << _session, _close_session, created, sent, scanned >>
    /\ UNCHANGED << config, op, args, before, resp, decoded, decodings, nscan, sessionCloses >>

\* The body of the answer to state()'s own query has arrived.
StateDone ==
    /\ pc \in BodyAwaits("state")
    /\ IF RequestResult(resp).kind = "return"
       THEN /\ result' = Return(StateFromDict(RequestResult(resp).value))
            /\ run' = IF run = "fresh" THEN "first"
                       ELSE IF run = "first" THEN "later" ELSE run
       ELSE /\ result' = RequestResult(resp)
            /\ run' = "mixed"
    /\ pc' = "idle"
    /\ UNCHANGED << config, client, op, args, before, sent, resp, decoded, decodings, nscan,
                    sessionCloses, created, scanned >>

\* info()
CallInfo ==
    /\ Begin("info", << >>)
    /\ result' = Pending
    /\ nscan' = 0
    /\ SendRequest(<< >>, Nothing, Some(InfoQuery))
    /\ pc' = "info"
    /\ UNCHANGED << config, _parameters, sessionCloses, scanned, run >>

\* The body of the answer to info() has arrived.
InfoDone ==
    /\ pc \in BodyAwaits("info")
    /\ result' = IF RequestResult(resp).kind = "return"
                  THEN Return(InfoFromDict(RequestResult(resp).value))
                  ELSE RequestResult(resp)
    /\ pc' = "idle"
    /\ UNCHANGED << config, client, op, args, before, sent, resp, decoded, decodings, nscan,
                    ghost >>

\* thermostat(target_temperature, hvac_mode)
CallThermostat ==
    /\ \E t \in Temperatures, m \in HvacModes :
        /\ Begin("thermostat", << t, m >>)
        /\ SendRequest(<< >>, Some(ThermostatPayload(t, m)), Nothing)
    /\ result' = Pending
    /\ nscan' = 0
    /\ pc' = "thermostat"
    /\ UNCHANGED << config, _parameters, sessionCloses, scanned, run >>

\* The body of the answer to thermostat() has arrived.
ThermostatDone ==
    /\ pc \in BodyAwaits("thermostat")
    /\ result' = IF RequestResult(resp).kind = "return"
                  THEN Return(None)
                  ELSE RequestResult(resp)
    /\ pc' = "idle"
    /\ UNCHANGED << config, client, op, args, before, sent, resp, decoded, decodings, nscan,
                    ghost >>

\* close() up to its await of session.close(), or to its end when there is
\* no session of its own to close.
Close ==
    /\ Begin("close", << >>)
    /\ sessionCloses < MaxSessionCloses
    /\ nscan' = 0
    /\ sent' = << >>
    /\ IF ClosesSession(_session, _close_session)
       THEN /\ sessionCloses' = sessionCloses + 1
            /\ result' = Pending
            /\ pc' = "close"
       ELSE /\ sessionCloses' = sessionCloses
            /\ result' = Return(None)
            /\ pc' = "idle"
    /\ UNCHANGED << config, client, created, scanned, run >>

\* session.close() has finished: close() ends.
CloseDone ==
    /\ pc = "close"
    /\ result' = Return(None)
    /\ pc' = "idle"
    /\ UNCHANGED << config, client, op, args, before, sent, resp, decoded, decodings, nscan,
                    ghost >>

Next ==
    \/ ResponseHead
    \/ CallScan
    \/ ScanDone
    \/ CallState
    \/ StateScanDone
    \/ StateDone
    \/ CallInfo
    \/ InfoDone
    \/ CallThermostat
    \/ ThermostatDone
    \/ Close
    \/ CloseDone

Spec == Init /\ [][Next]_vars

\* ------------------------------------------------- concurrent callers

(***************************************************************************)
(* Several tasks of one event loop call the same client, one operation     *)
(* each.  A task runs without interruption from one await to the next: of  *)
(* self._session.request(), response.text() or response.json().  Here pc   *)
(* maps each task to "ready", to the await it is suspended at, or to       *)
(* "done"; sent is the log of all requests handed to a session, in order.  *)
(* The answers of the tasks are local to them and not recorded.            *)
(***************************************************************************)
Tasks == 1..NumTasks

InitConc ==
    /\ _session \in Sessions
    /\ _close_session = FALSE
    /\ _parameters = None
    /\ passkey \in Passkeys
    /\ \E c \in Credentials : username = c[1] /\ password = c[2]
    /\ pc = [t \in Tasks |-> "ready"]
    /\ op = "none"
    /\ args = << >>
    /\ before = None
    /\ sent = << >>
    /\ resp = NoResponse
    /\ decoded = FALSE
    /\ decodings = 0
    /\ nscan = 0
    /\ result = Pending
    /\ sessionCloses = 0
    /\ created = 0
    /\ scanned = None
    /\ run = "mixed"

\* Variant: the task is suspended between the test for a missing session
\* and the creation, which then goes by what the test saw.
ConcCall_SuspendsBeforeCreate(t) ==
    /\ \/ /\ pc[t] = "ready"
          /\ pc' = [pc EXCEPT ![t] =
                      IF _session = None THEN "saw_none" ELSE "saw_session"]
          /\ UNCHANGED << _session, _close_session, created, sent >>
       \/ /\ pc[t] \in {"saw_none", "saw_session"}
          /\ _session' = IF pc[t] = "saw_none" THEN "created" ELSE _session
          /\ _close_session' = IF pc[t] = "saw_none" THEN TRUE ELSE _close_session
          /\ created' = IF pc[t] = "saw_none" THEN created + 1 ELSE created
          /\ sent' = Append(sent, BuildRequest(_session', Nothing, Some(InfoQuery)))
          /\ pc' = [pc EXCEPT ![t] = "info"]
    /\ UNCHANGED << config, _parameters, op, args, before, resp, decoded, decodings, nscan,
                    result, sessionCloses, scanned, run >>

\* thermostat() arguments of the concurrent callers: none, and both.
ConcThermostatArgs == { << None, None >>, << "21.5", "3" >> }

\* A task calls scan(), state(), info() or thermostat(): the coroutine runs
\* to its first await.
ConcCall(t) ==
    /\ pc[t] = "ready"
    /\ \/ /\ SendRequest(sent, Nothing, Some(ScanQuery))
          /\ pc' = [pc EXCEPT ![t] = "scan"]
       \/ /\ IF NeedsScan(_parameters)
             THEN /\ SendRequest(sent, Nothing, Some(ScanQuery))
                  /\ pc' = [pc EXCEPT ![t] = "state_scan"]
             ELSE /\ SendRequest(sent, Nothing, Some(StateQuery(_parameters)))
                  /\ pc' = [pc EXCEPT ![t] = "state"]
       \/ /\ SendRequest(sent, Nothing, Some(InfoQuery))
          /\ pc' = [pc EXCEPT ![t] = "info"]
       \/ /\ \E a \in ConcThermostatArgs :
                SendRequest(sent, Some(ThermostatPayload(a[1], a[2])), Nothing)
          /\ pc' = [pc EXCEPT ![t] = "thermostat"]
    /\ UNCHANGED << config, _parameters, op, args, before, resp, decoded, decodings, nscan,
                    result, sessionCloses, scanned, run >>

\* Where the end of the await of session.request() takes _request: to a
\* raise in an except clause, to response.json() or to response.text().
HeadOutcomes ==
    { IF TransportError(r) # None THEN "raise"
      ELSE IF Decodes(r) THEN "json" ELSE "text" : r \in Answers }

\* The status line and headers of the answer to a task's request arrive, or
\* the failure that stands for them: _request raises and the call ends, or
\* the task goes on to await the body.
ConcHead(t) ==
    /\ pc[t] \in RequestAwaits
    /\ \E head \in HeadOutcomes :
        pc' = [pc EXCEPT ![t] = IF head = "raise" THEN "done"
                                ELSE IF head = "json" THEN JsonAwait(pc[t])
                                ELSE TextAwait(pc[t])]
    /\ UNCHANGED << config, client, op, args, before, sent, resp, decoded, decodings, nscan,
                    result, sessionCloses, created, scanned, run >>

\* What _request returns or raises once it has awaited response.json(),
\* and once it has awaited response.text().
JsonOutcomes ==
    { RequestResult(r) : r \in { a \in Answers : TransportError(a) = None /\ Decodes(a) } }
TextOutcomes ==
    { RequestResult(r) : r \in { a \in Answers : TransportError(a) = None /\ ~Decodes(a) } }
JsonAwaits == { JsonAwait(at) : at \in RequestAwaits }
TextAwaits == { TextAwait(at) : at \in RequestAwaits }

\* The body of the answer arrives, or its read fails: the coroutine runs
\* to its next await (state() after its scan) or to its end.
ConcDone(t) ==
    /\ pc[t] \in JsonAwaits \cup TextAwaits
    /\ \E outcome \in IF pc[t] \in JsonAwaits THEN JsonOutcomes ELSE TextOutcomes :
        IF /\ pc[t] \in { JsonAwait("scan"), JsonAwait("state_scan") }
           /\ outcome.kind = "return"
        THEN /\ _parameters' = ScanParameters(outcome.value)
             /\ scanned' = ScanParameters(outcome.value)
             /\ IF pc[t] = JsonAwait("state_scan")
                THEN /\ SendRequest(sent, Nothing, Some(StateQuery(_parameters')))
                     /\ pc' = [pc EXCEPT ![t] = "state"]
                ELSE /\ pc' = [pc EXCEPT ![t] = "done"]
                     /\ UNCHANGED << _session, _close_session, created, sent >>
        ELSE /\ pc' = [pc EXCEPT ![t] = "done"]
             /\ UNCHANGED << client, created, sent, scanned >>
    /\ UNCHANGED << config, op, args, before, resp, decoded, decodings, nscan, result,
                    sessionCloses, run >>

NextConc == \E t \in Tasks : ConcCall(t) \/ ConcHead(t) \/ ConcDone(t)

SpecConc == InitConc /\ [][NextConc]_vars

\* --------------------------------------------------------------- claims

\* The running call is suspended at response.text(), at response.json().
AtTextAwait == \E at \in RequestAwaits : pc = TextAwait(at)
AtJsonAwait == \E at \in RequestAwaits : pc = JsonAwait(at)

\* The call recorded in op has ended and returned.
Returned(name) == op = name /\ pc = "idle" /\ result.kind = "return"

\* state() has handed its own query to the session: it is the last of sent.
StateQuerySent == op = "state" /\ Len(sent) = nscan + 1
StateQueryFilter == sent[Len(sent)].params.some["Parameter"]

\* The answer in resp is the one to a scan() request that succeeded, and
\* nothing has been received since.
ScanAnswered ==
    \/ Returned("scan")
    \/ op = "state" /\ pc = "state" /\ nscan = 1
ScannedMap == resp.body.json.some

\* A reading whose value is present and non-empty.
IsValid(reading) == "value" \in DOMAIN reading /\ reading.value # ""

RECURSIVE CommaJoined(_)
\* The items with a comma between neighbours, built from the right end.
CommaJoined(items) ==
    IF Len(items) = 0 THEN ""
    ELSE IF Len(items) = 1 THEN items[1]
    ELSE CommaJoined(SubSeq(items, 1, Len(items) - 1)) \o "," \o items[Len(items)]

ValidIds(m) == Keys(SelectSeq(m, LAMBDA e : IsValid(e[2])))

\* C1: on a client whose cache is empty, in a sequence of state() calls that
\* all succeed with no scan() call among them (run is "first" after the first
\* of them and "later" after each further one), the first state() call
\* invokes scan() exactly once and every later one invokes it zero times.
C1_ScanOnceThenNever ==
    (Returned("state") /\ run \in {"first", "later"})
        => /\ (run = "first") => (before = None /\ nscan = 1)
           /\ (run = "later") => (before # None /\ nscan = 0)

\* A later state() call of such a sequence has returned without a scan,
\* here with an empty discovered set in the cache.
C1_Witness ==
    Returned("state") /\ run = "later" /\ nscan = 0 /\ _parameters = ""

\* C2: after any sequence of calls the cache holds what the most recent
\* successful scan() returned (None before the first), so nothing but a
\* scan() changes it and a later scan() overwrites it; and the Parameter
\* filter of every query state() sends is that value.
C2_FilterIsLatestScan ==
    /\ _parameters = scanned
    /\ StateQuerySent => StateQueryFilter = scanned

\* state() has sent its query from a cache filled by an earlier call, after
\* calls other than a plain run of state() calls.
C2_Witness ==
    /\ Returned("state") /\ nscan = 0 /\ run = "mixed"
    /\ scanned = "700,8740" /\ StateQueryFilter = "700,8740"

\* C3: for every scan response map, scan() stores and returns exactly the
\* IDs whose value is present and non-empty, joined by commas in the order
\* of the response map, and none of the IDs whose value is absent or empty.
C3_ScanKeepsValidIdsInOrder ==
    ScanAnswered =>
        /\ _parameters = CommaJoined(ValidIds(ScannedMap))
        /\ Returned("scan") => result.value = CommaJoined(ValidIds(ScannedMap))

\* scan() has returned for a map with a valid ID after an invalid one.
C3_Witness ==
    /\ Returned("scan")
    /\ ScannedMap = << <<"710", [value |-> ""]>>, <<"8740", [value |-> "20.5"]>> >>
    /\ result.value = "8740"

\* C4: when the scan response has no ID with a non-empty value the
\* discovered set is the empty string, and a state() call that starts with
\* that cached value does not scan and sends one query whose Parameter
\* filter is empty.
C4_EmptySetIsCached ==
    /\ (ScanAnswered /\ ValidIds(ScannedMap) = << >>) => _parameters = ""
    /\ (op = "state" /\ before = "")
          => /\ nscan = 0
             /\ Len(sent) = 1
             /\ StateQueryFilter = ""

\* state() has returned after starting from the cached empty set.
C4_Witness ==
    Returned("state") /\ before = "" /\ Len(sent) = 1 /\ _parameters = ""

\* C5 as stated: whatever the sequence of requests and close() calls, after
\* a close() the session the client created has been closed exactly once, a
\* caller-supplied session has never been closed, and a close() without a
\* session closes nothing and returns.
C5_ClosedExactlyOnce ==
    /\ (op = "close" /\ _session = "created") => sessionCloses = 1
    /\ (_session = "supplied") => sessionCloses = 0
    /\ (op = "close" /\ _session = None) => (sessionCloses = 0 /\ result = Return(None))

\* C5 amended: every close() call on a client that created its own session
\* invokes that session's close() once more (n calls, n invocations: there
\* is no guard against a repeated close()); no other step closes a session;
\* a caller-supplied session is never closed; a close() without a session
\* closes nothing; and close() returns, at once when it closes nothing and
\* else when the session's close() has finished.
C5_EachCloseClosesOwnSession ==
    [][ /\ IF pc = "idle" /\ op' = "close"
           THEN /\ sessionCloses' =
                     sessionCloses + (IF _session = "created" THEN 1 ELSE 0)
                /\ IF _session = "created"
                   THEN pc' = "close" /\ result' = Pending
                   ELSE pc' = "idle" /\ result' = Return(None)
           ELSE sessionCloses' = sessionCloses
        /\ (pc = "close") => (pc' = "idle" /\ result' = Return(None))
        /\ (_session' # "created") => sessionCloses' = 0
      ]_vars

\* close() has been called twice on a client that created its session.
C5_Witness ==
    /\ op = "close" /\ _session = "created" /\ _close_session /\ sessionCloses = 2
    /\ pc = "idle" /\ result = Return(None)

\* The Content-Type of the answer in resp, "" without the header.
AnswerContentType ==
    IF "Content-Type" \in DOMAIN resp.headers THEN resp.headers["Content-Type"] ELSE ""

\* The content types of the model that contain "application/json".
JsonContentTypes == { "application/json", "application/json; charset=utf-8" }

\* C6 as stated: in every public operation, a timeout of a request ends
\* the call with a BSBLanConnectionError, and response.json() is not called
\* on any response in that call.
C6_NoDecodingInTimedOutCall ==
    resp.kind = "timeout"
        => /\ op \in {"scan", "state", "info", "thermostat"}
           /\ pc = "idle"
           /\ result.kind = "raise"
           /\ result.exc = "BSBLanConnectionError"
           /\ decodings = 0

\* C6 amended: in every public operation, a timeout of a request ends the
\* call with the timeout BSBLanConnectionError, and response.json() is not
\* called on the answer to that request; the one decoding such a call can
\* hold is that of the answer to the scan request of a state() that found
\* no cache, done before state()'s own request timed out.
C6_TimeoutIsConnectionError ==
    resp.kind = "timeout"
        => /\ op \in {"scan", "state", "info", "thermostat"}
           /\ pc = "idle"
           /\ result.kind = "raise"
           /\ result.exc = "BSBLanConnectionError"
           /\ result.msg = TimeoutMessage
           /\ ~decoded
           /\ decodings = IF op = "state" /\ nscan = 1 /\ Len(sent) = 2
                          THEN 1 ELSE 0

\* The own query of a state() call has timed out after the answer to its
\* scan was decoded.
C6_Witness ==
    /\ op = "state" /\ Len(sent) = 2 /\ resp.kind = "timeout"
    /\ result.kind = "raise" /\ result.msg = TimeoutMessage
    /\ decodings = 1

\* C7: an answer that arrives, body included, with a 2xx status whose
\* Content-Type does not contain application/json (or is missing) ends the
\* request with a BSBLanError
\* that carries that content type and the raw body text, and the body is
\* not JSON-decoded: after such an answer the call waits for the text of
\* the body and for nothing else, and then ends with that error.
C7_NonJsonIsProtocolError ==
    (resp.kind = "http" /\ resp.status \in 200..299
                       /\ resp.body_error = None
                       /\ AnswerContentType \notin JsonContentTypes)
        => /\ ~decoded
           /\ pc = "idle" \/ AtTextAwait
           /\ AtTextAwait => result = Pending
           /\ (pc = "idle") =>
                 /\ result.kind = "raise"
                 /\ result.exc = "BSBLanError"
                 /\ result.info # Nothing
                 /\ DOMAIN result.info.some = {"Content-Type", "response"}
                 /\ result.info.some["Content-Type"] = AnswerContentType
                 /\ result.info.some["response"] = resp.body.text

\* A text/html answer has ended a call with the BSBLanError.
C7_Witness ==
    /\ pc = "idle" /\ resp.kind = "http" /\ resp.status = 200
    /\ AnswerContentType = "text/html"
    /\ result.kind = "raise" /\ result.exc = "BSBLanError"
    /\ result.info.some["response"] = HtmlText

\* The body of the request thermostat() sends.
ThermostatBody == sent[1].json

\* C8: thermostat() with only a target temperature t sends a body with
\* exactly Parameter="710", Value=t, Type="1"; with only an HVAC mode m it
\* sends a body with exactly Parameter="700", EnumValue=m, Type="1".
C8_SingleArgumentBodies ==
    op = "thermostat" =>
        /\ (args[1] # None /\ args[2] = None)
              => ThermostatBody =
                   Some([Parameter |-> "710", Value |-> args[1], Type |-> "1"])
        /\ (args[1] = None /\ args[2] # None)
              => ThermostatBody =
                   Some([Parameter |-> "700", EnumValue |-> args[2], Type |-> "1"])

\* thermostat(target_temperature="19.0") has sent its body and returned.
C8_Witness ==
    /\ Returned("thermostat") /\ args = << "19.0", None >>
    /\ ThermostatBody = Some([Parameter |-> "710", Value |-> "19.0", Type |-> "1"])

\* C9 as stated: with both arguments the body is that of the mode alone and
\* holds nothing of the temperature.
C9_BodyIsModeAlone ==
    (op = "thermostat" /\ args[1] # None /\ args[2] # None)
        => ThermostatBody =
             Some([Parameter |-> "700", EnumValue |-> args[2], Type |-> "1"])

\* C9 amended: with both arguments only the Parameter entry is overwritten
\* by the mode's ID; the body is Parameter="700", EnumValue=mode, Type="1"
\* and still holds the temperature as Value.
C9_BodyKeepsValue ==
    (op = "thermostat" /\ args[1] # None /\ args[2] # None)
        => ThermostatBody =
             Some([Parameter |-> "700", Value |-> args[1],
                   EnumValue |-> args[2], Type |-> "1"])

\* thermostat("21.5", "3") has sent its body.
C9_Witness ==
    /\ op = "thermostat" /\ args = << "21.5", "3" >>
    /\ DOMAIN ThermostatBody.some = {"Parameter", "Value", "EnumValue", "Type"}
    /\ ThermostatBody.some["Value"] = "21.5"

PublicOperations == {"scan", "state", "info", "thermostat"}

\* C10 as stated: every call of a public operation has called _request
\* exactly once when it ends, in every cache state.
C10_OneRequestPerCall ==
    (pc = "idle" /\ op \in PublicOperations) => Len(sent) = 1

\* C10 amended: scan(), info() and thermostat() call _request exactly once;
\* state() calls it once when a parameter set is cached, and on an empty
\* cache twice when its scan succeeds (the scan's request and its own) and
\* once when the scan fails.
C10_RequestsPerCall ==
    (pc = "idle" /\ op \in PublicOperations) =>
        Len(sent) = IF op = "state" /\ before = None /\ _parameters # None
                    THEN 2
                    ELSE 1

\* state() has returned after two requests, starting from an empty cache.
C10_Witness ==
    Returned("state") /\ before = None /\ nscan = 1 /\ Len(sent) = 2

\* Every request of the call recorded in sent.
Requests == { sent[i] : i \in 1..Len(sent) }

\* C11: a request goes to /JQ exactly when it carries no body and to /JS
\* exactly when it carries one, with the passkey, when one is configured, as
\* the path segment in front; scan, state and info always go to JQ and
\* every thermostat call goes to JS.
C11_PathFollowsBody ==
    \A q \in Requests :
        /\ (q.json = Nothing) <=> (q.path \in {"/JQ", "/1234/JQ"})
        /\ (q.json # Nothing) <=> (q.path \in {"/JS", "/1234/JS"})
        /\ (passkey = None) <=> (q.path \in {"/JQ", "/JS"})
        /\ (passkey = "1234") <=> (q.path \in {"/1234/JQ", "/1234/JS"})
        /\ (op \in {"scan", "state", "info"}) => q.json = Nothing
        /\ (op = "thermostat") => q.json # Nothing

\* A state() call that scanned first has sent both requests to /1234/JQ.
C11_Witness ==
    /\ op = "state" /\ Len(sent) = 2 /\ passkey = "1234"
    /\ sent[1].path = "/1234/JQ" /\ sent[2].path = "/1234/JQ"

\* Configured: given as a non-empty string.
Configured(x) == x # None /\ x # ""

\* C12: a request carries HTTP Basic credentials exactly when both username
\* and password are configured (as non-empty strings); with only one of
\* them or neither the request is still sent, without credentials, and the
\* call runs as with any other configuration.
C12_AuthNeedsBothCredentials ==
    /\ \A q \in Requests :
          IF Configured(username) /\ Configured(password)
          THEN q.auth = Some([login |-> username, password |-> password])
          ELSE q.auth = Nothing
    /\ (pc = "idle" /\ op \in {"scan", "state", "info", "thermostat"})
          => (Len(sent) >= 1 /\ result.kind \in {"return", "raise"})
    /\ (result.kind = "raise")
          => result.exc \in {"BSBLanConnectionError", "BSBLanError", "JSONDecodeError",
                             "aiohttp.ClientPayloadError"}

\* With a username and no password a call has sent its request without
\* credentials and returned.
C12_Witness ==
    /\ username = "admin" /\ password = None
    /\ Returned("info") /\ sent[1].auth = Nothing

\* C13: over any sequence of operations (failing requests and requests
\* after close() included) the client creates a session at most once, only
\* when it has none (so on its first request, and only when the caller
\* supplied none); the ownership flag is set exactly for a session the
\* client created; a caller-supplied session is never replaced; and every
\* request goes out on the session the client holds.
C13_SessionCreatedAtMostOnce ==
    [][ /\ created' \in {0, 1}
        /\ (_session' = "created") <=> (created' = 1)
        /\ _close_session' <=> (_session' = "created")
        /\ (created' # created)
              => (_session = None /\ Len(sent') >= 1 /\ sessionCloses = 0)
        /\ (_session # None) => (_session' = _session)
        /\ \A i \in 1..Len(sent') : sent'[i].session = _session'
      ]_vars

\* A request made after close() has failed on the session created earlier.
C13_Witness ==
    /\ op = "info" /\ pc = "idle" /\ result.kind = "raise"
    /\ sessionCloses = 1 /\ created = 1
    /\ sent[1].session = "created" /\ _session = "created"

\* The answer in resp is a transport failure other than an error status.
NoAnswer == resp.kind \in {"timeout", "clienterror", "gaierror"}

IsConnectionError ==
    pc = "idle" /\ result.kind = "raise" /\ result.exc = "BSBLanConnectionError"
IsProtocolError ==
    pc = "idle" /\ result.kind = "raise" /\ result.exc = "BSBLanError"

\* C14: a call whose answer is a timeout, a transport failure (no
\* connection, no address, a connection that breaks under the body) or a
\* status outside 2xx ends with BSBLanConnectionError whatever the content
\* type, and BSBLanError is raised only after a 2xx answer.
C14_Non2xxIsConnectionError ==
    /\ (pc = "idle"
          /\ \/ NoAnswer
             \/ resp.kind = "http" /\ resp.status \notin 200..299
             \/ resp.kind = "http" /\ resp.body_error # None)
          => IsConnectionError
    /\ IsProtocolError => (resp.kind = "http" /\ resp.status \in 200..299)

\* C15: the request timeout bounds every phase of the request, the reading
\* of the body included: when the timer runs out before the status line and
\* headers are in, or before the body that the call reads is in, the call
\* ends with the timeout BSBLanConnectionError and in no other way.
C15_TimeoutBoundsEveryPhase ==
    (pc = "idle"
       /\ \/ resp.kind = "timeout"
          \/ resp.kind = "http" /\ resp.status < 400 /\ resp.body_late)
        => (IsConnectionError /\ result.msg = TimeoutMessage)

\* The answer r is one of the failures _request raises for.
IsFailure(r) ==
    \/ r.kind \in {"timeout", "clienterror", "gaierror"}
    \/ r.kind = "http" /\ r.status >= 400
    \/ r.kind = "http" /\ r.status < 400
         /\ (IF "Content-Type" \in DOMAIN r.headers
              THEN r.headers["Content-Type"] ELSE "") \notin JsonContentTypes

\* C16: a Transport call makes one round trip and never retries: no step
\* hands more than one request to the session, and the steps that follow a
\* timeout, a transport failure or a content-type error send nothing more:
\* they end the call with the error raised, after the wait for the text of
\* the body where the error reports it.
C16_NoRetry ==
    [][ /\ \/ sent' = sent
           \/ Len(sent') <= 1
           \/ Len(sent') = Len(sent) + 1
                /\ SubSeq(sent', 1, Len(sent)) = sent
        /\ (pc # "idle" /\ IsFailure(resp'))
              => /\ sent' = sent
                 /\ \/ pc' = "idle" /\ result'.kind = "raise"
                    \/ /\ pc \in RequestAwaits /\ pc' = TextAwait(pc)
                       /\ result' = Pending
      ]_vars

\* The scan request of a state() call has timed out: one request, the call
\* has ended with the error.
C16_Witness ==
    /\ op = "state" /\ nscan = 1 /\ resp.kind = "timeout"
    /\ Len(sent) = 1 /\ IsConnectionError

\* The body thermostat() builds for its arguments.
ExpectedThermostatBody ==
    IF args[1] = None /\ args[2] = None THEN EmptyDict
    ELSE IF args[2] = None
         THEN [Parameter |-> "710", Value |-> args[1], Type |-> "1"]
    ELSE IF args[1] = None
         THEN [Parameter |-> "700", EnumValue |-> args[2], Type |-> "1"]
    ELSE [Parameter |-> "700", Value |-> args[1], EnumValue |-> args[2],
          Type |-> "1"]

\* C17: info() and thermostat() neither read nor write the cached set:
\* whatever is cached, info() queries the fixed IDs 6224,6225,6226 and
\* thermostat() sends the body its arguments give, both leave the cache as
\* it was, success or failure; the cache differs from its value at the
\* start of a call only through a scan() that succeeded in that call.
C17_CacheOnlyScanWrites ==
    /\ (op = "info")
          => /\ Len(sent) = 1
             /\ sent[1].params = Some([Parameter |-> "6224,6225,6226"])
             /\ sent[1].json = Nothing
             /\ _parameters = before
    /\ (op = "thermostat")
          => /\ Len(sent) = 1
             /\ sent[1].params = Nothing
             /\ sent[1].json = Some(ExpectedThermostatBody)
             /\ _parameters = before
    /\ (_parameters # before)
          => (op \in {"scan", "state"} /\ nscan = 1 /\ _parameters = scanned)

\* info() has failed with a parameter set in the cache, which is unchanged.
C17_Witness ==
    /\ op = "info" /\ pc = "idle" /\ result.kind = "raise"
    /\ before = "8740,710" /\ _parameters = "8740,710"

\* C18: a failed request leaves the cache unchanged.  A scan() that raises
\* leaves the cache as it was before; a state() call on an empty cache whose
\* scan fails raises without its own query and leaves the cache empty; and
\* every state() call that starts on an empty cache scans first.
C18_FailureKeepsCache ==
    /\ (pc = "idle" /\ op = "scan" /\ result.kind = "raise")
          => _parameters = before
    /\ (pc = "idle" /\ op = "state" /\ result.kind = "raise")
          => _parameters \in {before, scanned}
    /\ (pc = "idle" /\ op = "state" /\ before = None /\ IsFailure(resp)
                    /\ Len(sent) = 1)
          => (_parameters = None /\ result.kind = "raise")
    /\ (pc = "idle" /\ op = "state" /\ before = None /\ _parameters = None)
          => (Len(sent) = 1 /\ result.kind = "raise")
    /\ (op = "state" /\ before = None)
          => (nscan = 1 /\ sent[1].params = Some([Parameter |-> "8740,710,700"]))

\* A scan() on a filled cache has failed with a BSBLanError; the cache is
\* as before.
C18_Witness ==
    /\ op = "scan" /\ IsProtocolError
    /\ before = "700" /\ _parameters = "700"

\* C19: thermostat() with neither argument still sends one write request:
\* the body is the empty map, the path ends in /JS, and the call ends only
\* once that request is answered, with no error other than those the
\* answer gives rise to.
C19_EmptyThermostatWrites ==
    (op = "thermostat" /\ args = << None, None >>)
        => /\ Len(sent) = 1
           /\ sent[1].json # Nothing
           /\ DOMAIN sent[1].json.some = {}
           /\ sent[1].path \in {"/JS", "/1234/JS"}
           /\ (pc = "idle") => resp # NoResponse
           /\ (pc = "idle" /\ result.kind = "raise") =>
                 result.exc \in {"BSBLanConnectionError", "BSBLanError",
                                 "JSONDecodeError", "aiohttp.ClientPayloadError"}

\* thermostat() without arguments has sent {} to /JS and returned.
C19_Witness ==
    /\ Returned("thermostat") /\ args = << None, None >>
    /\ sent[1].json = Some(EmptyDict) /\ sent[1].path = "/JS"

\* Task t is suspended at an await of _request: of the request or of the
\* body of its answer.
Suspended(t) == \E at \in RequestAwaits : pc[t] \in {at} \cup BodyAwaits(at)

\* C20: when several operations run concurrently on one client, switching
\* only at the awaits of _request, at most one session is ever created and
\* every request of every task goes out on the one session the client
\* holds.
C20_OneSessionForAllTasks ==
    /\ created <= 1
    /\ (created = 1) <=> (_session = "created")
    /\ \A i \in 1..Len(sent) : sent[i].session = _session
    /\ (\E t \in Tasks : pc[t] # "ready") => _session # None

\* Tasks started on a client without a session are all suspended, one of
\* them a scan() waiting for the body of its answer and another a state()
\* waiting for the answer to its scan request; their requests use the one
\* session created.
C20_Witness ==
    /\ \A t \in Tasks : Suspended(t)
    /\ \E t, u \in Tasks : pc[t] = JsonAwait("scan") /\ pc[u] = "state_scan"
    /\ created = 1 /\ _close_session
    /\ Len(sent) >= 2
    /\ \A i \in 1..Len(sent) : sent[i].session = "created"

====
